---- MODULE Spec2Model ----
(***************************************************************************)
(* Chat feed controller (ChatMessages) and agent-flow visualization        *)
(* controller (AgentFlowPanel) of the loan-assistant web application.      *)
(*                                                                         *)
(* JavaScript values are represented as follows:                           *)
(*   - an absent / empty string (falsy) is "";                             *)
(*   - a callCount that is undefined or NaN is NotANumber;                 *)
(*   - an edge label '' is <<>> and the label `${n} calls` is <<n>>;       *)
(*   - a trace entry is [text |-> t]; its wall-clock timestamp is left out. *)
(***************************************************************************)
EXTENDS Integers, Sequences, FiniteSets, TLC

(***************************************************************************)
(* Bounds of the model.                                                    *)
(***************************************************************************)
MaxEvents == 2
MaxTimers == 3
MaxInflight == 1
MaxTurns == 2
MaxTraces == 2
MaxCount == 2
MaxExtraEdges == 1

(***************************************************************************)
(* Program constants.                                                      *)
(***************************************************************************)
SignalDelay == 100
AnimationDelay == 2000
NotANumber == -1

LoanAgentName == "loan_application_assistant_agent"

VARIABLES
    \* ---- AgentFlowPanel (visualization controller) ----
    vizMounted,      \* agentFlowRef.current is non-null (fixed by Init)
    vizError,        \* a state updater of the panel threw (TypeError)
    edgeStats,       \* useState: edge id -> [callCount, isAnimated]
    nodeDetailsMap,  \* useState: node id -> trace history (sequence of entries)
    nodes,           \* useNodesState: node id -> transient flags
    edges,           \* useEdgesState: sequence of displayed edges
    selectedNode,    \* useState: "" (null) or a node id
    isModalVisible,  \* useState
    \* ---- ChatMessages (feed controller) ----
    feedMounted,     \* the component is mounted
    phase,           \* "idle", or "effects": committed, effects still to run
    userID,          \* authedUser?.userID ?? ""
    subs,            \* subscriptions live at the event source
    effectSub,       \* subscription held by the current effect closure, 0 if none
    inflight,        \* events emitted and not yet delivered, by subscription
    chats,           \* data of useListChatsByUser ([] while undefined)
    fetchPending,    \* a fetch of the turn list is running
    isAIResponding,  \* useState
    timers,          \* pending setTimeout callbacks, in the order they were set
    backend,         \* turns stored by the backend, per user
    delivered,       \* number of events the handler has processed
    last             \* what the last step did (outputs to collaborators)

vizVars == <<vizMounted, vizError, edgeStats, nodeDetailsMap, nodes, edges,
             selectedNode, isModalVisible>>
lifeVars == <<feedMounted, phase, userID, subs, effectSub>>
turnVars == <<chats, fetchPending, isAIResponding, backend>>
feedVars == <<lifeVars, turnVars, inflight, timers, delivered>>
panelVars == <<vizMounted, selectedNode, isModalVisible>>
vizState == <<vizError, edgeStats, nodeDetailsMap, nodes, edges>>
vars == <<vizVars, feedVars, last>>

(***************************************************************************)
(* AgentFlowNodeConfig: the initial graph.                                 *)
(***************************************************************************)
NodeIds == {"user", "supervisor", "loanApplicant", "broker", "response"}

NewEdge(id, source, target) ==
    [id |-> id, source |-> source, target |-> target,
     animated |-> FALSE, label |-> <<>>]

createInitialLoanNodes ==
    [n \in NodeIds |-> [isProcessing |-> "unset", processingComplete |-> "unset"]]

\* createInitialLoanEdges with a fifth edge from a collaborator to the reply
createInitialLoanEdgesFive ==
    << NewEdge("e-user-supervisor", "user", "supervisor"),
       NewEdge("e-supervisor-loanApplicant", "supervisor", "loanApplicant"),
       NewEdge("e-supervisor-broker", "supervisor", "broker"),
       NewEdge("e-supervisor-response", "supervisor", "response"),
       NewEdge("e-loanApplicant-response", "loanApplicant", "response") >>

createInitialLoanEdges ==
    << NewEdge("e-user-supervisor", "user", "supervisor"),
       NewEdge("e-supervisor-loanApplicant", "supervisor", "loanApplicant"),
       NewEdge("e-supervisor-broker", "supervisor", "broker"),
       NewEdge("e-supervisor-response", "supervisor", "response") >>

loanNodeDetailsMap == [n \in NodeIds |-> <<>>]

InitialEdgeStats ==
    [e \in {"e-user-supervisor", "e-supervisor-loanApplicant",
            "e-supervisor-broker", "e-supervisor-response"} |->
        [callCount |-> 0, isAnimated |-> FALSE]]

Range(s) == {s[i] : i \in DOMAIN s}
EdgeIdsOf(es) == {es[i].id : i \in DOMAIN es}

(***************************************************************************)
(* AgentFlowPanel: the imperative handle.  Each operator is the state      *)
(* updater of the call; <Name>Throws tells when the updater raises.        *)
(***************************************************************************)
updateEdgeAnimationSticky(stats, edgeId, isAnimated) ==
    [k \in DOMAIN stats \cup {edgeId} |->
        IF k = edgeId
        THEN [callCount |-> IF edgeId \in DOMAIN stats
                            THEN stats[edgeId].callCount ELSE NotANumber,
              isAnimated |-> isAnimated \/ (edgeId \in DOMAIN stats
                                            /\ stats[edgeId].isAnimated)]
        ELSE stats[k]]

updateEdgeAnimation(stats, edgeId, isAnimated) ==
    [k \in DOMAIN stats \cup {edgeId} |->
        IF k = edgeId
        THEN [callCount |-> IF edgeId \in DOMAIN stats
                            THEN stats[edgeId].callCount ELSE NotANumber,
              isAnimated |-> isAnimated]
        ELSE stats[k]]

incrementEdgeCountThrows(stats, edgeId) == edgeId \notin DOMAIN stats

incrementEdgeCountTwice(stats, edgeId) ==
    [stats EXCEPT ![edgeId].callCount =
        IF @ = NotANumber THEN NotANumber ELSE @ + 2]

incrementEdgeCount(stats, edgeId) ==
    [stats EXCEPT ![edgeId].callCount =
        IF @ = NotANumber THEN NotANumber ELSE @ + 1]

Merge(old, new) == IF new = "unset" THEN old ELSE new

updateNodeState(ns, nodeId, state) ==
    [n \in DOMAIN ns |->
        IF n = nodeId
        THEN [isProcessing |-> Merge(ns[n].isProcessing, state.isProcessing),
              processingComplete |->
                  Merge(ns[n].processingComplete, state.processingComplete)]
        ELSE ns[n]]

addNodeTraceThrows(details, nodeId) == nodeId \notin DOMAIN details

addNodeTracePrepend(details, nodeId, trace) ==
    [details EXCEPT ![nodeId] = <<trace>> \o @]

addNodeTrace(details, nodeId, trace) ==
    [details EXCEPT ![nodeId] = Append(@, trace)]

(***************************************************************************)
(* AgentFlowPanel: the edge-sync effect, run after every change of         *)
(* edgeStats.                                                              *)
(***************************************************************************)
EdgeLabel(stats, id) ==
    IF id \in DOMAIN stats /\ stats[id].callCount > 0
    THEN <<stats[id].callCount>> ELSE <<>>

SyncEdgesLabelOnly(es, stats) ==
    [i \in DOMAIN es |-> [es[i] EXCEPT !.label = EdgeLabel(stats, es[i].id)]]

SyncEdges(es, stats) ==
    [i \in DOMAIN es |->
        [es[i] EXCEPT
            !.animated = (es[i].id \in DOMAIN stats /\ stats[es[i].id].isAnimated),
            !.label = EdgeLabel(stats, es[i].id)]]

(***************************************************************************)
(* reactflow addEdge, as used by onConnect: no edge without both ends, no  *)
(* second edge for a connection that exists, else the edge is appended.    *)
(***************************************************************************)
connectionExists(es, source, target) ==
    \E i \in DOMAIN es : es[i].source = source /\ es[i].target = target

addEdge(source, target, es) ==
    IF source = "" \/ target = "" THEN es
    ELSE IF connectionExists(es, source, target) THEN es
    ELSE Append(es, NewEdge("reactflow__edge-" \o source \o "-" \o target,
                            source, target))

isValidNodeType(id) ==
    id \in {"supervisor", "loanApplicant", "broker", "user", "response"}

(***************************************************************************)
(* A call on the imperative handle, and its application to the panel's     *)
(* state v = [stats, details, nodes, err].  A throwing updater leaves the  *)
(* state it was updating as it was and raises the error.                   *)
(***************************************************************************)
NoState == [isProcessing |-> "unset", processingComplete |-> "unset"]

Call(fn, id, flag, text, st) ==
    [fn |-> fn, id |-> id, flag |-> flag, text |-> text, st |-> st]
CallUpdateEdgeAnimation(edgeId, isAnimated) ==
    Call("updateEdgeAnimation", edgeId, isAnimated, "", NoState)
CallIncrementEdgeCount(edgeId) ==
    Call("incrementEdgeCount", edgeId, FALSE, "", NoState)
CallUpdateNodeState(nodeId, st) ==
    Call("updateNodeState", nodeId, FALSE, "", st)
CallAddNodeTrace(nodeId, text) ==
    Call("addNodeTrace", nodeId, FALSE, text, NoState)

ApplyCall(v, c) ==
    CASE c.fn = "updateEdgeAnimation" ->
            [v EXCEPT !.stats = updateEdgeAnimation(@, c.id, c.flag)]
      [] c.fn = "incrementEdgeCount" ->
            IF incrementEdgeCountThrows(v.stats, c.id)
            THEN [v EXCEPT !.err = TRUE]
            ELSE [v EXCEPT !.stats = incrementEdgeCount(@, c.id)]
      [] c.fn = "updateNodeState" ->
            [v EXCEPT !.nodes = updateNodeState(@, c.id, c.st)]
      [] c.fn = "addNodeTrace" ->
            IF addNodeTraceThrows(v.details, c.id)
            THEN [v EXCEPT !.err = TRUE]
            ELSE [v EXCEPT !.details = addNodeTrace(@, c.id, [text |-> c.text])]

RECURSIVE ApplyCalls(_, _)
ApplyCalls(v, calls) ==
    IF calls = <<>> THEN v
    ELSE ApplyCalls(ApplyCall(v, Head(calls)), Tail(calls))

\* agentFlowRef.current?.<call>: nothing happens through a null ref.
ThroughRef(ref, v, calls) == IF ref THEN ApplyCalls(v, calls) ELSE v

VizState == [stats |-> edgeStats, details |-> nodeDetailsMap,
             nodes |-> nodes, err |-> vizError]

SetViz(v) ==
    /\ edgeStats' = v.stats
    /\ nodeDetailsMap' = v.details
    /\ nodes' = v.nodes
    /\ vizError' = v.err
    /\ edges' = SyncEdges(edges, v.stats)

(***************************************************************************)
(* ChatMessages: events, payloads and traces.                              *)
(***************************************************************************)
NoTrace == [present |-> FALSE, action |-> "", collaboratorName |-> "", text |-> ""]

Traces ==
    [present : {TRUE},
     action : {"modelInvocationInput", "modelInvocationOutput", "other"},
     collaboratorName : {"", LoanAgentName, "broker_agent"},
     text : {"", "t1"}]

\* The payload string: absent (""), not JSON, the JSON null, or a JSON
\* object with or without a trace.
Payloads ==
    [text : {"", "{not json", "null"}, trace : {NoTrace}]
        \cup [text : {"object"}, trace : Traces \cup {NoTrace}]

Events == [bot : {"", "Approved"}, payload : Payloads]

\* The events whose payload carries no trace.
PlainEvents == {ev \in Events : ~ev.payload.trace.present}

JSONParseThrows(payload) == payload.text = "{not json"

JSONParse(payload) ==
    [isNull |-> payload.text = "null",
     trace |-> IF payload.text = "object" THEN payload.trace ELSE NoTrace]

Timer(delay, edge) == [delay |-> delay, edge |-> edge]

(***************************************************************************)
(* ChatMessages.handleTraceUpdate: the calls made on the handle and the    *)
(* timers started, in program order.                                       *)
(***************************************************************************)
CollaboratorNodeUnmapped(name) ==
    IF name = LoanAgentName THEN "loanApplicant" ELSE name

CollaboratorNodeSwapped(name) ==
    IF name = LoanAgentName THEN "broker" ELSE "loanApplicant"

CollaboratorNode(name) ==
    IF name = LoanAgentName THEN "loanApplicant" ELSE "broker"

TraceCallsAlways(text, nodeId) == <<CallAddNodeTrace(nodeId, text)>>

\* if (trace?.content?.text) agentFlowRef.current?.addNodeTrace(nodeId, traceEntry)
TraceCalls(text, nodeId) ==
    IF text # "" THEN <<CallAddNodeTrace(nodeId, text)>> ELSE <<>>

handleTraceUpdate(trace, bot) ==
    LET first == trace.action = "modelInvocationInput" /\ trace.collaboratorName = ""
        collab == trace.action = "modelInvocationOutput" /\ trace.collaboratorName # ""
        plain == trace.action = "modelInvocationOutput" /\ trace.collaboratorName = ""
        nodeId == CollaboratorNode(trace.collaboratorName)
        edgeId == "e-supervisor-" \o nodeId
        ruleCalls ==
            IF first THEN
                TraceCalls(trace.text, "supervisor")
                \o << CallUpdateEdgeAnimation("e-user-supervisor", TRUE),
                      CallUpdateEdgeAnimation("e-supervisor-response", TRUE) >>
            ELSE IF collab THEN
                TraceCalls(trace.text, nodeId)
                \o << CallIncrementEdgeCount(edgeId),
                      CallUpdateEdgeAnimation(edgeId, TRUE) >>
            ELSE IF plain THEN TraceCalls(trace.text, "supervisor")
            ELSE <<>>
        ruleTimers ==
            IF first THEN <<Timer(AnimationDelay, "e-user-supervisor")>>
            ELSE IF collab THEN <<Timer(AnimationDelay, edgeId)>>
            ELSE <<>>
        finalCalls == IF bot # "" THEN <<CallAddNodeTrace("response", bot)>> ELSE <<>>
        finalTimers ==
            IF bot # "" THEN <<Timer(AnimationDelay, "e-supervisor-response")>>
            ELSE <<>>
    IN  [calls |-> ruleCalls \o finalCalls, timers |-> ruleTimers \o finalTimers]

Nothing == [calls |-> <<>>, timers |-> <<>>]

(***************************************************************************)
(* setupSubscription: the `next` handler.  TryBody is the body of the try  *)
(* block; `raised` tells that it threw.                                    *)
(***************************************************************************)
TryBody(ev) ==
    IF JSONParseThrows(ev.payload) THEN [out |-> Nothing, raised |-> TRUE]
    ELSE LET parsedPayload == JSONParse(ev.payload)
         IN  IF parsedPayload.isNull THEN [out |-> Nothing, raised |-> TRUE]
             ELSE IF parsedPayload.trace.present
                  THEN [out |-> handleTraceUpdate(parsedPayload.trace, ev.bot),
                        raised |-> FALSE]
             ELSE IF ev.bot # ""
                  THEN [out |-> handleTraceUpdate(NoTrace, ev.bot), raised |-> FALSE]
             ELSE [out |-> Nothing, raised |-> FALSE]

\* The names of the calls made on the handle, in call order.
Forwarded(calls) == [k \in DOMAIN calls |-> calls[k].fn]

nextWithoutCatch(ev) ==
    LET r == IF ev.payload.text # "" THEN TryBody(ev)
             ELSE [out |-> Nothing, raised |-> FALSE]
    IN  [calls |-> r.out.calls, timers |-> r.out.timers, threw |-> r.raised,
         refetches |-> IF r.raised THEN 0 ELSE 1,
         signals |-> IF r.raised THEN 0 ELSE 1,
         effects |-> Forwarded(r.out.calls)
                     \o (IF r.raised THEN <<>> ELSE <<"refetch", "onNewMessage">>)]

\* The handler's outcome: calls and timers of the trace forwarding, whether
\* an error left the handler, and then refetch() and onNewMessage();
\* `effects` is everything the handler called, in program order.
next(ev) ==
    LET r == IF ev.payload.text # "" THEN TryBody(ev)
             ELSE [out |-> Nothing, raised |-> FALSE]
    IN  [calls |-> r.out.calls, timers |-> r.out.timers, threw |-> FALSE,
         refetches |-> 1, signals |-> 1,
         effects |-> Forwarded(r.out.calls) \o <<"refetch", "onNewMessage">>]

(***************************************************************************)
(* ChatMessages: the responding-state effect and the displayed turn list.  *)
(***************************************************************************)
RespondingEffect(cs, responding) ==
    IF cs # <<>>
    THEN LET lastChat == cs[Len(cs)]
         IN  IF lastChat.human # "" /\ lastChat.bot = ""
             THEN [responding |-> TRUE, timers |-> <<Timer(SignalDelay, "")>>,
                   signals |-> 0]
             ELSE IF lastChat.bot # ""
             THEN [responding |-> FALSE, timers |-> <<>>, signals |-> 1]
             ELSE [responding |-> responding, timers |-> <<>>, signals |-> 0]
    ELSE [responding |-> responding, timers |-> <<>>, signals |-> 0]

RECURSIVE groupedMessagesByBot(_)
groupedMessagesByBot(cs) ==
    IF cs = <<>> THEN <<>>
    ELSE LET acc == groupedMessagesByBot(SubSeq(cs, 1, Len(cs) - 1))
             chat == cs[Len(cs)]
         IN  IF chat.bot # ""
             THEN Append(acc, [id |-> chat.id, human |-> chat.human,
                               bot |-> chat.bot, payload |-> chat.payload])
             ELSE acc

RECURSIVE groupedMessagesLastBotOnly(_)
groupedMessagesLastBotOnly(cs) ==
    IF cs = <<>> THEN <<>>
    ELSE LET acc == groupedMessagesLastBotOnly(SubSeq(cs, 1, Len(cs) - 1))
             chat == cs[Len(cs)]
         IN  IF chat.human # ""
             THEN Append([k \in DOMAIN acc |-> [acc[k] EXCEPT !.bot = ""]],
                         [id |-> chat.id, human |-> chat.human, bot |-> chat.bot,
                          payload |-> chat.payload])
             ELSE acc

RECURSIVE groupedMessages(_)
groupedMessages(cs) ==
    IF cs = <<>> THEN <<>>
    ELSE LET acc == groupedMessages(SubSeq(cs, 1, Len(cs) - 1))
             chat == cs[Len(cs)]
         IN  IF chat.human # ""
             THEN Append(acc, [id |-> chat.id, human |-> chat.human,
                               bot |-> chat.bot, payload |-> chat.payload])
             ELSE acc

(***************************************************************************)
(* ChatMessages: the render of the displayed turns.  The stored payload of *)
(* a turn is absent, not JSON, the JSON null, a JSON value that is not an  *)
(* object ("5"), or an object with `documents` attachments.  JSON.parse    *)
(* throws on text that is not JSON, and reading .documents of null throws. *)
(* An attachment is represented by its id, a file name, and a file name by *)
(* the sequence of its characters.                                         *)
(***************************************************************************)
NoPayload == [text |-> "", documents |-> <<>>]

FileNames ==
    { <<"a", ".", "p", "d", "f">>, <<"a", ".", "P", "D", "F">>,
      <<"a", ".", "p", "n", "g">>, <<"a", ".", "j", "p", "g">>,
      <<"a", ".", "j", "p", "e", "g">>, <<"a", ".", "G", "i", "F">>,
      <<"a", ".", "t", "x", "t">>, <<"a", ".", "p", "d", "f", ".", "t", "x", "t">>,
      <<"p", "d", "f">>, <<"a", ".">>, <<"a">> }

StoredPayloads ==
    [text : {"", "{not json", "null", "5"}, documents : {<<>>}]
        \cup [text : {"object"},
              documents : {<<>>, << <<"a", ".", "p", "d", "f">> >>}]

\* String.prototype.toLowerCase, on the characters of the file names.
toLowerCase(s) ==
    LET lower == [c \in {"P", "D", "F", "G"} |->
                     CASE c = "P" -> "p" [] c = "D" -> "d"
                       [] c = "F" -> "f" [] c = "G" -> "g"]
    IN  [i \in DOMAIN s |-> IF s[i] \in DOMAIN lower THEN lower[s[i]] ELSE s[i]]

RECURSIVE splitPop(_)
\* s.split('.').pop(): what follows the last '.', all of s if it has none.
splitPop(s) ==
    IF s = <<>> THEN <<>>
    ELSE IF s[Len(s)] = "." THEN <<>>
    ELSE Append(splitPop(SubSeq(s, 1, Len(s) - 1)), s[Len(s)])

getFileType(fileName) ==
    LET extension == splitPop(toLowerCase(fileName))
    IN  IF extension = <<"p", "d", "f">> THEN "pdf"
        ELSE IF extension \in { <<"p", "n", "g">>, <<"j", "p", "g">>,
                                <<"j", "p", "e", "g">>, <<"g", "i", "f">> }
        THEN "image"
        ELSE "unknown"

Preview(element, icon, thumbnail, opensNewTab) ==
    [element |-> element, icon |-> icon, thumbnail |-> thumbnail,
     opensNewTab |-> opensNewTab]

\* What is rendered for one attachment: for a PDF an <a target="_blank">
\* around the title with icons, for everything else an <img> thumbnail that
\* opens the file in a new tab on click, followed by the title.
renderDocumentPreview(docId) ==
    LET fileType == getFileType(docId)
    IN  IF fileType = "pdf"
        THEN Preview("link", TRUE, FALSE, TRUE)
        ELSE Preview("image", FALSE, TRUE, TRUE)

\* chat.payload && JSON.parse(chat.payload).documents?.length > 0
renderTurnThrows(chat) ==
    chat.payload.text # ""
        /\ (JSONParseThrows(chat.payload) \/ chat.payload.text = "null")

\* The number of attachments listed under the turn's human bubble.
attachmentsShown(chat) ==
    IF chat.payload.text = "object" THEN Len(chat.payload.documents) ELSE 0

\* The previews listed under the turn's human bubble, in document order.
previewsShown(chat) ==
    IF chat.payload.text = "object"
    THEN [k \in DOMAIN chat.payload.documents |->
             renderDocumentPreview(chat.payload.documents[k])]
    ELSE <<>>

renderThrows(shown) == \E k \in DOMAIN shown : renderTurnThrows(shown[k])

UnsubscribeForgotten(live, subscription) == live

\* The cleanup of the subscription effect: subscription?.unsubscribe().
Unsubscribe(live, subscription) == live \ {subscription}

(***************************************************************************)
(* Initial state: the panel is mounted with the initial graph, the feed    *)
(* controller is not mounted yet, the backend holds no turn.               *)
(***************************************************************************)
Users == {"", "u1"}
SubIds == 1 .. (MaxInflight + 2)

\* What a step gave to the collaborators: `event` is "-" when the step
\* consumed no event, "stale" for an event that reached no handler, else
\* the payload text of the event handled.
Out(event, signals, refetches, threw) ==
    [event |-> event, signals |-> signals, refetches |-> refetches,
     threw |-> threw]

InitPanel ==
    /\ vizError = FALSE
    /\ edgeStats = InitialEdgeStats
    /\ nodeDetailsMap = loanNodeDetailsMap
    /\ nodes = createInitialLoanNodes
    /\ edges = createInitialLoanEdges
    /\ selectedNode = ""
    /\ isModalVisible = FALSE

InitFeed ==
    /\ feedMounted = FALSE
    /\ phase = "idle"
    /\ subs = {}
    /\ effectSub = 0
    /\ inflight = <<>>
    /\ chats = <<>>
    /\ fetchPending = FALSE
    /\ isAIResponding = FALSE
    /\ timers = <<>>
    /\ delivered = 0
    /\ last = Out("-", 0, 0, FALSE)

(***************************************************************************)
(* ChatMessages: lifecycle.  A commit that changes a dependency of the     *)
(* subscription effect runs the effect's cleanup; the effects of the       *)
(* commit run in the step after it (RunEffects).                           *)
(***************************************************************************)
Mount ==
    /\ ~feedMounted /\ phase = "idle"
    /\ feedMounted' = TRUE
    /\ phase' = "effects"
    /\ chats' = <<>>
    /\ fetchPending' = TRUE
    /\ isAIResponding' = FALSE
    /\ last' = Out("-", 0, 0, FALSE)
    /\ UNCHANGED <<vizVars, userID, subs, effectSub, backend, inflight, timers,
                   delivered>>

RunEffects ==
    /\ feedMounted /\ phase = "effects"
    /\ LET r == RespondingEffect(chats, isAIResponding)
           free == SubIds \ (subs \cup Range(inflight))
       IN  /\ free # {}
           /\ Len(timers \o r.timers) <= MaxTimers
           /\ isAIResponding' = r.responding
           /\ timers' = timers \o r.timers
           /\ LET subscription == CHOOSE s \in free : \A t \in free : s <= t
              IN  /\ subs' = subs \cup {subscription}
                  /\ effectSub' = subscription
           /\ last' = Out("-", r.signals, 0, FALSE)
    /\ phase' = "idle"
    /\ UNCHANGED <<vizVars, feedMounted, userID, chats, fetchPending, backend,
                   inflight, delivered>>

IdentityChange(u) ==
    /\ feedMounted /\ phase = "idle" /\ u # userID
    /\ userID' = u
    /\ subs' = Unsubscribe(subs, effectSub)
    /\ effectSub' = 0
    /\ chats' = <<>>
    /\ fetchPending' = TRUE
    /\ phase' = "effects"
    /\ last' = Out("-", 0, 0, FALSE)
    /\ UNCHANGED <<vizVars, feedMounted, isAIResponding, backend, inflight, timers,
                   delivered>>

\* The parent re-renders with a new onNewMessage callback.
PropsChange ==
    /\ feedMounted /\ phase = "idle"
    /\ subs' = Unsubscribe(subs, effectSub)
    /\ effectSub' = 0
    /\ phase' = "effects"
    /\ last' = Out("-", 0, 0, FALSE)
    /\ UNCHANGED <<vizVars, feedMounted, userID, turnVars, inflight, timers,
                   delivered>>

Unmount ==
    /\ feedMounted /\ phase = "idle"
    /\ feedMounted' = FALSE
    /\ subs' = Unsubscribe(subs, effectSub)
    /\ effectSub' = 0
    /\ fetchPending' = FALSE
    /\ last' = Out("-", 0, 0, FALSE)
    /\ UNCHANGED <<vizVars, phase, userID, chats, isAIResponding, backend, inflight,
                   timers, delivered>>

(***************************************************************************)
(* The event source and the subscription handler.                          *)
(***************************************************************************)
Emit ==
    /\ phase = "idle" /\ Len(inflight) < MaxInflight
    /\ \E s \in subs : inflight' = Append(inflight, s)
    /\ last' = Out("-", 0, 0, FALSE)
    /\ UNCHANGED <<vizVars, lifeVars, turnVars, timers, delivered>>

Deliver(ev) ==
    /\ phase = "idle" /\ inflight # <<>> /\ Head(inflight) \in subs
    /\ delivered < MaxEvents
    /\ LET r == next(ev)
           v == ThroughRef(vizMounted, VizState, r.calls)
       IN  /\ Len(timers \o r.timers) <= MaxTimers
           /\ SetViz(v)
           /\ timers' = timers \o r.timers
           /\ fetchPending' = (fetchPending \/ r.refetches > 0)
           /\ last' = Out(ev.payload.text, r.signals, r.refetches, r.threw)
    /\ inflight' = Tail(inflight)
    /\ delivered' = delivered + 1
    /\ UNCHANGED <<panelVars, lifeVars, chats, isAIResponding, backend>>

\* An event of a subscription that was unsubscribed reaches no handler.
DropStale ==
    /\ phase = "idle" /\ inflight # <<>> /\ Head(inflight) \notin subs
    /\ inflight' = Tail(inflight)
    /\ last' = Out("stale", 0, 0, FALSE)
    /\ UNCHANGED <<vizVars, lifeVars, turnVars, timers, delivered>>

(***************************************************************************)
(* Timers.  A timer fires before every timer set no earlier with a delay   *)
(* at least as long.                                                       *)
(***************************************************************************)
CanFire(ts, i) == \A j \in 1 .. (i - 1) : ts[j].delay > ts[i].delay

RemoveAt(ts, i) == SubSeq(ts, 1, i - 1) \o SubSeq(ts, i + 1, Len(ts))

\* setTimeout(() => onNewMessage?.(), 100)
FireSignal(i) ==
    /\ phase = "idle" /\ i \in DOMAIN timers /\ CanFire(timers, i)
    /\ timers[i].delay = SignalDelay
    /\ timers' = RemoveAt(timers, i)
    /\ last' = Out("-", 1, 0, FALSE)
    /\ UNCHANGED <<vizVars, lifeVars, turnVars, inflight, delivered>>

\* setTimeout(() => agentFlowRef.current?.updateEdgeAnimation(edge, false), 2000)
FireEdgeClear(i) ==
    /\ phase = "idle" /\ i \in DOMAIN timers /\ CanFire(timers, i)
    /\ timers[i].delay = AnimationDelay
    /\ SetViz(ThroughRef(vizMounted, VizState,
                         <<CallUpdateEdgeAnimation(timers[i].edge, FALSE)>>))
    /\ timers' = RemoveAt(timers, i)
    /\ last' = Out("-", 0, 0, FALSE)
    /\ UNCHANGED <<panelVars, lifeVars, turnVars, inflight, delivered>>

(***************************************************************************)
(* The turn list: the backend's turns and the reactive read of them.       *)
(***************************************************************************)
Turn(id, human, bot) ==
    [id |-> id, human |-> human, bot |-> bot, payload |-> NoPayload]

\* A message submitted with a payload (attached documents).
BackendStoreTurn(u, human, payload) ==
    /\ u # "" /\ Len(backend[u]) < MaxTurns
    /\ backend' = [backend EXCEPT
                      ![u] = Append(@, [Turn(Len(@) + 1, human, "")
                                           EXCEPT !.payload = payload])]
    /\ last' = Out("-", 0, 0, FALSE)
    /\ UNCHANGED <<vizVars, lifeVars, chats, fetchPending, isAIResponding, inflight,
                   timers, delivered>>

\* Only an authenticated user ("" is none) submits messages.
BackendNewTurn(u, human) ==
    /\ u # "" /\ Len(backend[u]) < MaxTurns
    /\ backend' = [backend EXCEPT ![u] = Append(@, Turn(Len(@) + 1, human, ""))]
    /\ last' = Out("-", 0, 0, FALSE)
    /\ UNCHANGED <<vizVars, lifeVars, chats, fetchPending, isAIResponding, inflight,
                   timers, delivered>>

BackendBotReply(u, i) ==
    /\ i \in DOMAIN backend[u] /\ backend[u][i].bot = ""
    /\ backend' = [backend EXCEPT ![u][i].bot = "Approved"]
    /\ last' = Out("-", 0, 0, FALSE)
    /\ UNCHANGED <<vizVars, lifeVars, chats, fetchPending, isAIResponding, inflight,
                   timers, delivered>>

\* The query result arrives and the component renders the new list.  An
\* error raised by the render unmounts the component (its effect cleanups
\* run, the effects of the failed commit do not).
FetchComplete ==
    /\ feedMounted /\ phase = "idle" /\ fetchPending
    /\ fetchPending' = FALSE
    /\ chats' = backend[userID]
    /\ IF renderThrows(groupedMessages(chats'))
       THEN /\ feedMounted' = FALSE
            /\ subs' = Unsubscribe(subs, effectSub)
            /\ effectSub' = 0
            /\ last' = Out("-", 0, 0, TRUE)
            /\ UNCHANGED <<phase, userID, isAIResponding, timers>>
       ELSE /\ LET r == IF chats' # chats
                        THEN RespondingEffect(chats', isAIResponding)
                        ELSE [responding |-> isAIResponding, timers |-> <<>>,
                              signals |-> 0]
               IN  /\ Len(timers \o r.timers) <= MaxTimers
                   /\ isAIResponding' = r.responding
                   /\ timers' = timers \o r.timers
                   /\ last' = Out("-", r.signals, 0, FALSE)
            /\ UNCHANGED lifeVars
    /\ UNCHANGED <<vizVars, backend, inflight, delivered>>

(***************************************************************************)
(* Spec: trace routing.  One authenticated user, the backend's turn list   *)
(* stays empty; the feed controller is mounted once, events are delivered  *)
(* and their timers fire; the panel stays mounted.  Teardown of the feed   *)
(* controller is the subject of SpecLife.                                  *)
(***************************************************************************)
Init ==
    /\ InitPanel /\ InitFeed
    /\ vizMounted = TRUE
    /\ userID = "u1"
    /\ backend = [u \in Users |-> <<>>]

Next ==
    \/ Mount
    \/ RunEffects
    \/ Emit
    \/ \E ev \in Events : Deliver(ev)
    \/ \E i \in 1 .. MaxTimers : FireEdgeClear(i)
    \/ FetchComplete

Spec == Init /\ [][Next]_vars

(***************************************************************************)
(* SpecTimers: trace routing with the scheduling of setTimeout: a pending   *)
(* timer callback is eventually run.  Every event carries a trace; the     *)
(* turn list is not read.                                                  *)
(***************************************************************************)
TraceEvents == {ev \in Events : ev.payload.trace.present}

NextTimers ==
    \/ Mount
    \/ RunEffects
    \/ Emit
    \/ \E ev \in TraceEvents : Deliver(ev)
    \/ \E i \in 1 .. MaxTimers : FireEdgeClear(i)

SpecTimers ==
    /\ Init /\ [][NextTimers]_vars
    /\ WF_vars(\E i \in 1 .. MaxTimers : FireEdgeClear(i))

(***************************************************************************)
(* SpecOrder: the order of the trace histories.  Every event carries an    *)
(* output trace, of the supervisor or of a collaborator, with one of two   *)
(* texts or none, so that the order of two entries of a node can be told.  *)
(***************************************************************************)
OrderTraces ==
    [present : {TRUE}, action : {"modelInvocationOutput"},
     collaboratorName : {"", "broker_agent"}, text : {"", "t1", "t2"}]

OrderEvents ==
    [bot : {"", "Approved"}, payload : [text : {"object"}, trace : OrderTraces]]

NextOrder ==
    \/ Mount
    \/ RunEffects
    \/ Emit
    \/ \E ev \in OrderEvents : Deliver(ev)
    \/ \E i \in 1 .. MaxTimers : FireEdgeClear(i)

SpecOrder == Init /\ [][NextOrder]_vars

(***************************************************************************)
(* SpecLife: lifecycle of the feed controller and of its subscription.     *)
(* The user identity and the onNewMessage callback change, the controller  *)
(* is mounted and unmounted; the user "u1" has one message waiting for its *)
(* reply; the events carry no trace; the panel is not rendered             *)
(* (agentFlowRef.current is null).                                         *)
(***************************************************************************)
InitLife ==
    /\ InitPanel /\ InitFeed
    /\ vizMounted = FALSE
    /\ userID \in Users
    /\ backend = [u \in Users |-> IF u = "u1" THEN <<Turn(1, "hi", "")>> ELSE <<>>]

NextLife ==
    \/ Mount
    \/ RunEffects
    \/ \E u \in Users : IdentityChange(u)
    \/ PropsChange
    \/ Unmount
    \/ Emit
    \/ \E ev \in PlainEvents : Deliver(ev)
    \/ DropStale
    \/ \E i \in 1 .. MaxTimers : FireSignal(i)
    \/ \E i \in 1 .. MaxTimers : FireEdgeClear(i)
    \/ FetchComplete

SpecLife == InitLife /\ [][NextLife]_vars

(***************************************************************************)
(* SpecTurns: the turn list of one session.  The controller is mounted for *)
(* the user "u1", the backend gains turns and replies, events without      *)
(* reply and without trace trigger re-fetches; the panel is not rendered.  *)
(***************************************************************************)
TurnEvents == {ev \in PlainEvents : ev.bot = ""}

InitTurns ==
    /\ InitPanel /\ InitFeed
    /\ vizMounted = FALSE
    /\ userID = "u1"
    /\ backend = [u \in Users |-> <<>>]

NextTurns ==
    \/ Mount
    \/ RunEffects
    \/ Emit
    \/ \E ev \in TurnEvents : Deliver(ev)
    \/ \E i \in 1 .. MaxTimers : FireSignal(i)
    \/ \E u \in Users, human \in {"", "hi"} : BackendNewTurn(u, human)
    \/ \E u \in Users, i \in 1 .. MaxTurns : BackendBotReply(u, i)
    \/ FetchComplete

SpecTurns == InitTurns /\ [][NextTurns]_vars

(***************************************************************************)
(* SpecRender: the render of stored turns.  The controller is mounted for  *)
(* the user "u1"; messages are stored with any payload, events trigger     *)
(* re-fetches and every fetched list is rendered; the panel is not         *)
(* rendered.                                                               *)
(***************************************************************************)
NextRender ==
    \/ Mount
    \/ RunEffects
    \/ Emit
    \/ \E ev \in TurnEvents : Deliver(ev)
    \/ \E i \in 1 .. MaxTimers : FireSignal(i)
    \/ \E human \in {"", "hi"}, payload \in StoredPayloads :
          BackendStoreTurn("u1", human, payload)
    \/ FetchComplete

SpecRender == InitTurns /\ [][NextRender]_vars

(***************************************************************************)
(* SpecPreview: the attachments of stored turns.  As SpecRender, with      *)
(* every stored payload a JSON object listing one or two attached          *)
(* documents.                                                              *)
(***************************************************************************)
PreviewPayloads ==
    [text : {"object"},
     documents : {<<f>> : f \in FileNames}
                     \cup {<<f, <<"a", ".", "p", "n", "g">> >> : f \in FileNames}]

NextPreview ==
    \/ Mount
    \/ RunEffects
    \/ Emit
    \/ \E ev \in TurnEvents : Deliver(ev)
    \/ \E i \in 1 .. MaxTimers : FireSignal(i)
    \/ \E human \in {"", "hi"}, payload \in PreviewPayloads :
          BackendStoreTurn("u1", human, payload)
    \/ FetchComplete

SpecPreview == InitTurns /\ [][NextPreview]_vars

(***************************************************************************)
(* SpecViz: the panel on its own.  Any holder of the handle calls the      *)
(* imperative API with known and unknown identifiers, the user connects    *)
(* nodes, clicks nodes and dismisses the modal.  A throwing updater ends   *)
(* the panel (no action is enabled once vizError holds).                   *)
(***************************************************************************)
EdgeIdInputs == {"e-user-supervisor", "e-supervisor-broker", "e-ghost"}
NodeIdInputs == {"broker", "ghost"}
StateInputs ==
    { [isProcessing |-> "true", processingComplete |-> "unset"],
      [isProcessing |-> "false", processingComplete |-> "true"] }
ConnectInputs ==
    { <<"loanApplicant", "response">>, <<"broker", "response">>,
      <<"user", "supervisor">>, <<"", "response">> }

PanelLive == vizMounted /\ ~vizError

ApiUpdateEdgeAnimation(edgeId, isAnimated) ==
    /\ PanelLive
    /\ SetViz(ApplyCall(VizState, CallUpdateEdgeAnimation(edgeId, isAnimated)))
    /\ last' = Out("-", 0, 0, FALSE)
    /\ UNCHANGED <<panelVars, feedVars>>

ApiIncrementEdgeCount(edgeId) ==
    /\ PanelLive
    /\ edgeId \in DOMAIN edgeStats => edgeStats[edgeId].callCount < MaxCount
    /\ SetViz(ApplyCall(VizState, CallIncrementEdgeCount(edgeId)))
    /\ last' = Out("-", 0, 0, FALSE)
    /\ UNCHANGED <<panelVars, feedVars>>

ApiUpdateNodeState(nodeId, st) ==
    /\ PanelLive
    /\ SetViz(ApplyCall(VizState, CallUpdateNodeState(nodeId, st)))
    /\ last' = Out("-", 0, 0, FALSE)
    /\ UNCHANGED <<panelVars, feedVars>>

ApiAddNodeTrace(nodeId, text) ==
    /\ PanelLive
    /\ nodeId \in DOMAIN nodeDetailsMap => Len(nodeDetailsMap[nodeId]) < MaxTraces
    /\ SetViz(ApplyCall(VizState, CallAddNodeTrace(nodeId, text)))
    /\ last' = Out("-", 0, 0, FALSE)
    /\ UNCHANGED <<panelVars, feedVars>>

\* onConnect: setEdges(eds => addEdge(params, eds))
OnConnect(source, target) ==
    /\ PanelLive
    /\ edges' = addEdge(source, target, edges)
    /\ Len(edges') <= Len(createInitialLoanEdges) + MaxExtraEdges
    /\ last' = Out("-", 0, 0, FALSE)
    /\ UNCHANGED <<vizMounted, vizError, edgeStats, nodeDetailsMap, nodes,
                   selectedNode, isModalVisible, feedVars>>

OnNodeClick(nodeId) ==
    /\ PanelLive /\ nodeId \in DOMAIN nodes
    /\ IF isValidNodeType(nodeId)
       THEN selectedNode' = nodeId /\ isModalVisible' = TRUE
       ELSE UNCHANGED <<selectedNode, isModalVisible>>
    /\ last' = Out("-", 0, 0, FALSE)
    /\ UNCHANGED <<vizMounted, vizState, feedVars>>

ModalDismiss ==
    /\ PanelLive /\ isModalVisible
    /\ isModalVisible' = FALSE
    /\ last' = Out("-", 0, 0, FALSE)
    /\ UNCHANGED <<vizMounted, vizState, selectedNode, feedVars>>

InitViz ==
    /\ InitPanel /\ InitFeed
    /\ vizMounted = TRUE
    /\ userID = "u1"
    /\ backend = [u \in Users |-> <<>>]

NextViz ==
    \/ \E e \in EdgeIdInputs, b \in BOOLEAN : ApiUpdateEdgeAnimation(e, b)
    \/ \E e \in EdgeIdInputs : ApiIncrementEdgeCount(e)
    \/ \E n \in NodeIdInputs, st \in StateInputs : ApiUpdateNodeState(n, st)
    \/ \E n \in NodeIdInputs : ApiAddNodeTrace(n, "t1")
    \/ \E c \in ConnectInputs : OnConnect(c[1], c[2])
    \/ \E n \in {"supervisor", "broker"} : OnNodeClick(n)
    \/ ModalDismiss

SpecViz == InitViz /\ [][NextViz]_vars

(***************************************************************************)
(* Properties.                                                             *)
(***************************************************************************)
UnknownEdgeIds == EdgeIdInputs \ DOMAIN InitialEdgeStats
UnknownNodeIds == NodeIdInputs \ NodeIds
PanelUnchanged == UNCHANGED <<edgeStats, nodes, nodeDetailsMap>>

\* C1: each of the four API calls, made with a node or edge identifier that
\* is not in the fixed set, raises no error and leaves the edge stats, the
\* node list and the node trace map as they were.
C1_UnknownIdIsNoOp ==
    [][ /\ \A e \in UnknownEdgeIds, b \in BOOLEAN :
              ApiUpdateEdgeAnimation(e, b) => (~vizError' /\ PanelUnchanged)
        /\ \A e \in UnknownEdgeIds :
              ApiIncrementEdgeCount(e) => (~vizError' /\ PanelUnchanged)
        /\ \A n \in UnknownNodeIds, st \in StateInputs :
              ApiUpdateNodeState(n, st) => (~vizError' /\ PanelUnchanged)
        /\ \A n \in UnknownNodeIds :
              ApiAddNodeTrace(n, "t1") => (~vizError' /\ PanelUnchanged)
      ]_vars

\* C2: every delivered event that carries a bot reply T, whatever its
\* payload, appends exactly one entry with text T to the history of the
\* "response" node and starts the delayed clear of the supervisor->response
\* edge; when that delay has elapsed the edge is not animated.
C2_EveryBotReplyIsTraced ==
    [][ /\ \A ev \in Events :
              (ev.bot # "" /\ Deliver(ev)) =>
                  /\ nodeDetailsMap'["response"] =
                         Append(nodeDetailsMap["response"], [text |-> ev.bot])
                  /\ Len(timers') > Len(timers)
                  /\ timers'[Len(timers')] = Timer(AnimationDelay, "e-supervisor-response")
        /\ \A i \in 1 .. MaxTimers :
              (FireEdgeClear(i) /\ timers[i].edge = "e-supervisor-response") =>
                  ~edgeStats'["e-supervisor-response"].isAnimated
      ]_vars

\* C3: an event of a subscription that the feed controller has torn down
\* (unmount, or cleanup of the subscription effect) causes no re-fetch and
\* no change of the turn list when it is consumed; while the controller is
\* unmounted, and whenever a pending timer fires, the turn list is not
\* changed and not re-fetched.
C3_NoTurnListWriteAfterTeardown ==
    [][ /\ (inflight # <<>> /\ inflight' = Tail(inflight)
                            /\ Head(inflight) # effectSub) =>
              (chats' = chats /\ fetchPending' = fetchPending
                              /\ last'.refetches = 0)
        /\ (~feedMounted /\ ~feedMounted') =>
              (chats' = chats /\ fetchPending' = fetchPending
                              /\ last'.refetches = 0)
        /\ Len(timers') < Len(timers) =>
              (chats' = chats /\ fetchPending' = fetchPending
                              /\ last'.refetches = 0)
      ]_vars

\* C3 witness: the controller is unmounted and an event that was in flight
\* when its subscription was torn down has been consumed.
C3_Witness == ~feedMounted /\ last.event = "stale"

IsMalformed(ev) == JSONParseThrows(ev.payload)
IsFirstHop(ev) ==
    /\ ev.payload.text = "object" /\ ev.payload.trace.present
    /\ ev.payload.trace.action = "modelInvocationInput"
    /\ ev.payload.trace.collaboratorName = ""

C6_FirstHop ==
    [][ \A ev \in Events :
            (IsFirstHop(ev) /\ Deliver(ev)) =>
                /\ Len(nodeDetailsMap'["supervisor"]) =
                       Len(nodeDetailsMap["supervisor"])
                       + (IF ev.payload.trace.text # "" THEN 1 ELSE 0)
                /\ edgeStats'["e-user-supervisor"].isAnimated
      ]_vars

\* C6 witness: a first-hop trace without text has been processed after one
\* with text: one supervisor entry, the user->supervisor edge animated.
C6_Witness ==
    /\ delivered = 2 /\ last.event = "object"
    /\ Len(nodeDetailsMap["supervisor"]) = 1
    /\ edgeStats["e-user-supervisor"].isAnimated
    /\ Len(timers) >= 2
    /\ \A i \in DOMAIN timers : timers[i].edge = "e-user-supervisor"

HasLoanTrace(ev) ==
    /\ ev.payload.text = "object" /\ ev.payload.trace.present
    /\ ev.payload.trace.collaboratorName = LoanAgentName

BrokerUnchanged ==
    /\ nodeDetailsMap'["broker"] = nodeDetailsMap["broker"]
    /\ edgeStats'["e-supervisor-broker"] = edgeStats["e-supervisor-broker"]
    /\ nodes'["broker"] = nodes["broker"]

LoanCountIncremented ==
    edgeStats'["e-supervisor-loanApplicant"].callCount =
        edgeStats["e-supervisor-loanApplicant"].callCount + 1

\* C7 as stated: processing any trace whose collaborator name is the
\* loan-applicant constant increments the call count of the
\* supervisor->loanApplicant edge by exactly 1 and leaves the broker node's
\* state unchanged.
C7_AnyLoanTraceCounts ==
    [][ \A ev \in Events :
            (HasLoanTrace(ev) /\ Deliver(ev)) =>
                (LoanCountIncremented /\ BrokerUnchanged) ]_vars

\* C7 amended: processing a trace with action "modelInvocationOutput" whose
\* collaborator name is the loan-applicant constant increments the call
\* count of the supervisor->loanApplicant edge by exactly 1 and leaves the
\* broker node's state unchanged; a trace with that collaborator name and
\* another action changes neither the count nor the broker node.
C7_LoanOutputTraceCounts ==
    [][ \A ev \in Events :
            (HasLoanTrace(ev) /\ Deliver(ev)) =>
                /\ BrokerUnchanged
                /\ IF ev.payload.trace.action = "modelInvocationOutput"
                   THEN LoanCountIncremented
                   ELSE edgeStats'["e-supervisor-loanApplicant"] =
                            edgeStats["e-supervisor-loanApplicant"]
      ]_vars

\* C7 witness: two loan-applicant output traces have been processed, the
\* broker node is untouched.
C7_Witness ==
    /\ edgeStats["e-supervisor-loanApplicant"].callCount = 2
    /\ edgeStats["e-supervisor-broker"] = [callCount |-> 0, isAnimated |-> FALSE]
    /\ nodeDetailsMap["broker"] = <<>>

\* C8: at most one subscription is live at any moment; after a commit that
\* tears the subscription down none is live until the effects of the commit
\* have run (the previous one is unsubscribed before the new one is live);
\* none is live while the controller is unmounted; the only live
\* subscription is the one the current effect holds.
C8_OneSubscription ==
    /\ Cardinality(subs) <= 1
    /\ subs \subseteq {effectSub}
    /\ phase = "effects" => subs = {}
    /\ ~feedMounted => subs = {}

\* C8 witness: a new subscription is live while an event of the previous,
\* torn-down one is still in flight.
C8_Witness ==
    /\ feedMounted /\ phase = "idle" /\ userID = "u1"
    /\ subs = {2} /\ inflight = <<1>>

\* C9: the node identifiers, the displayed edge identifiers and the keys of
\* the edge-stats map are those of the initial graph in every reachable
\* state.
C9_ClosedGraph ==
    /\ DOMAIN nodes = NodeIds
    /\ EdgeIdsOf(edges) = EdgeIdsOf(createInitialLoanEdges)
    /\ DOMAIN edgeStats = DOMAIN InitialEdgeStats

HumanTurns(cs) == SelectSeq(cs, LAMBDA c : c.human # "")

\* C10: the displayed turn list holds exactly the fetched turns that have a
\* human utterance, in fetched order, and its length never decreases under
\* delivered events and re-fetches.
C10_DisplayedTurns ==
    /\ [](LET shown == groupedMessages(chats)
              humans == HumanTurns(chats)
          IN  /\ Len(shown) = Cardinality({i \in DOMAIN chats : chats[i].human # ""})
              /\ Len(shown) = Len(humans)
              /\ \A k \in DOMAIN shown :
                    /\ shown[k].id = humans[k].id
                    /\ shown[k].human = humans[k].human
                    /\ shown[k].bot = humans[k].bot)
    /\ [][Len(groupedMessages(chats')) >= Len(groupedMessages(chats))]_vars

\* C10 witness: two turns were fetched after an event, one of them without
\* a human utterance, and one turn is displayed.
C10_Witness ==
    /\ Len(chats) = 2 /\ Len(groupedMessages(chats)) = 1
    /\ chats[1].human = "" /\ delivered >= 1

(***************************************************************************)
(* Properties of the displayed turn list (SpecTurns).                      *)
(***************************************************************************)
\* C11: a displayed turn whose bot field is present is still displayed with
\* the same bot field after every step of the session: the field never goes
\* back to absent, so it goes from absent to present at most once.
C11_BotFieldNeverReverts ==
    [][ \A k \in DOMAIN groupedMessages(chats) :
            groupedMessages(chats)[k].bot # "" =>
                \E j \in DOMAIN groupedMessages(chats') :
                    /\ groupedMessages(chats')[j].id = groupedMessages(chats)[k].id
                    /\ groupedMessages(chats')[j].bot = groupedMessages(chats)[k].bot
      ]_vars

\* C11 witness: the first displayed turn has its reply and a second turn,
\* displayed with it, still waits for its own.
C11_Witness ==
    /\ Len(groupedMessages(chats)) = 2
    /\ groupedMessages(chats)[1].bot # ""
    /\ groupedMessages(chats)[2].bot = ""
    /\ isAIResponding

(***************************************************************************)
(* Properties of the edge animations (Spec).                               *)
(***************************************************************************)
ResponseEdge == "e-supervisor-response"

\* A first-hop trace was processed after timer i was set and less than the
\* animation delay ago: its own user->supervisor clear is still pending.
FirstHopSince(i) ==
    \E j \in (i + 1) .. Len(timers) : timers[j].edge = "e-user-supervisor"

\* C12: the supervisor->response edge, once animated, is turned off only by
\* the delayed clear of a final-response event, and never by a clear that
\* was started before a first-hop trace that has since animated the edge
\* (a reply of the previous request less than 2 seconds before that trace).
C12_ResponseEdgeStaysAnimated ==
    [][ /\ (edgeStats[ResponseEdge].isAnimated
                /\ ~edgeStats'[ResponseEdge].isAnimated) =>
              \E i \in 1 .. MaxTimers :
                  FireEdgeClear(i) /\ timers[i].edge = ResponseEdge
        /\ \A i \in 1 .. MaxTimers :
              (FireEdgeClear(i) /\ timers[i].edge = ResponseEdge
                                /\ edgeStats[ResponseEdge].isAnimated) =>
                  ~FirstHopSince(i)
      ]_vars

CollaboratorEdges == {"e-supervisor-loanApplicant", "e-supervisor-broker"}

\* The animation delay of a trace that animated edge e has not elapsed yet:
\* the clear that trace started is still pending.
ClearPending(e) == \E i \in DOMAIN timers : timers[i].edge = e

\* C13: during the 2 seconds that follow a trace with action
\* "modelInvocationOutput" and a collaborator name (while the clear started
\* by that trace is pending) the supervisor->node edge of the mapped node is
\* animated, also when the trace arrived inside the window of an earlier
\* trace for the same node.
C13_AnimatedForFullDelay ==
    \A e \in CollaboratorEdges : ClearPending(e) => edgeStats[e].isAnimated

TimedEdges == {"e-user-supervisor", "e-supervisor-loanApplicant",
               "e-supervisor-broker"}

\* C14: while the panel stays mounted, whenever the user->supervisor, the
\* supervisor->loanApplicant or the supervisor->broker edge is animated it
\* is eventually not animated; and in every state where no timer is pending
\* none of the three is animated, whatever the order of events and timers.
C14_AnimationsEnd ==
    /\ \A e \in TimedEdges :
          edgeStats[e].isAnimated ~> ~edgeStats[e].isAnimated
    /\ [](timers = <<>> => \A e \in TimedEdges : ~edgeStats[e].isAnimated)

\* C14 witness: the supervisor->broker edge was animated by two traces and
\* both clears have fired.
C14_Witness ==
    /\ edgeStats["e-supervisor-broker"].callCount = 2
    /\ ~edgeStats["e-supervisor-broker"].isAnimated
    /\ timers = <<>>

FeedNodeIds == {"supervisor", "loanApplicant", "broker", "response"}
FeedEdgeIds == {"e-user-supervisor", "e-supervisor-loanApplicant",
                "e-supervisor-broker", "e-supervisor-response"}

CallIdsKnown(calls) ==
    \A k \in DOMAIN calls :
        IF calls[k].fn \in {"addNodeTrace", "updateNodeState"}
        THEN calls[k].id \in FeedNodeIds /\ calls[k].id \in DOMAIN nodeDetailsMap
        ELSE calls[k].id \in FeedEdgeIds /\ calls[k].id \in DOMAIN edgeStats

\* C15: for every delivered event, whatever its trace, every identifier the
\* feed controller passes to the panel's API in the handler belongs to the
\* fixed node and edge sets, and so does the edge of every timer it starts;
\* hence no updater of the panel throws and the panel's maps keep their
\* initial keys (the unknown-identifier path is never reached).
C15_FeedUsesKnownIds ==
    /\ [][ \A ev \in Events :
              Deliver(ev) => /\ CallIdsKnown(next(ev).calls)
                             /\ \A k \in DOMAIN next(ev).timers :
                                   next(ev).timers[k].edge \in FeedEdgeIds ]_vars
    /\ [](/\ ~vizError
          /\ DOMAIN edgeStats = FeedEdgeIds
          /\ DOMAIN nodeDetailsMap = NodeIds
          /\ \A i \in DOMAIN timers : timers[i].edge \in FeedEdgeIds
          /\ \A e \in FeedEdgeIds : edgeStats[e].callCount # NotANumber)

\* C15 witness: a trace of a collaborator other than the loan applicant and
\* a bot reply have been forwarded to the panel and a clear is pending.
C15_Witness ==
    /\ nodeDetailsMap["broker"] # <<>>
    /\ nodeDetailsMap["response"] # <<>>
    /\ timers # <<>>

(***************************************************************************)
(* Properties of the trace histories (SpecOrder).                          *)
(***************************************************************************)
IsPrefix(s, t) == Len(s) <= Len(t) /\ SubSeq(t, 1, Len(s)) = s

RECURSIVE EntriesFor(_, _)
\* The entries that a sequence of calls on the handle asks to add to node n,
\* in call order.
EntriesFor(calls, n) ==
    IF calls = <<>> THEN <<>>
    ELSE LET c == Head(calls)
         IN  (IF c.fn = "addNodeTrace" /\ c.id = n
              THEN <<[text |-> c.text]>> ELSE <<>>)
             \o EntriesFor(Tail(calls), n)

\* C16: the history of every node only grows at its end: after every step
\* the previous history is a prefix of the new one, and a delivered event
\* adds exactly the entries its handler forwards for the node, after the
\* entries of the events delivered before it, also when an identical event
\* was delivered before (no deduplication, no reordering).
C16_HistoriesAppendOnly ==
    [][ /\ \A n \in NodeIds : IsPrefix(nodeDetailsMap[n], nodeDetailsMap'[n])
        /\ \A ev \in OrderEvents :
              Deliver(ev) =>
                  \A n \in NodeIds :
                      nodeDetailsMap'[n] =
                          nodeDetailsMap[n] \o EntriesFor(next(ev).calls, n)
      ]_vars

\* C16 witness: the same supervisor trace was delivered twice and the
\* history holds two equal entries.
C16_Witness ==
    /\ delivered = 2
    /\ nodeDetailsMap["supervisor"] = <<[text |-> "t1"], [text |-> "t1"]>>

(***************************************************************************)
(* Properties of the render (SpecRender).                                  *)
(***************************************************************************)
IsDocumentObject(payload) == payload.text = "object"

\* C17: the render of every fetched turn list raises no error and leaves
\* the controller mounted, also when a displayed turn has a payload that is
\* not valid JSON or does not parse to an object; such a turn is shown
\* without attachments.
C17_RenderNeverThrows ==
    [][ FetchComplete =>
            /\ ~last'.threw /\ feedMounted'
            /\ \A k \in DOMAIN groupedMessages(chats') :
                  ~IsDocumentObject(groupedMessages(chats')[k].payload) =>
                      attachmentsShown(groupedMessages(chats')[k]) = 0
      ]_vars

(***************************************************************************)
(* Properties of the subscription handler (Spec).                          *)
(***************************************************************************)
Count(seq, x) == Cardinality({k \in DOMAIN seq : seq[k] = x})

\* C18: the handler of every delivered event, whatever its payload (absent,
\* malformed, with a trace or without), calls refetch() exactly once and
\* onNewMessage() exactly once, in that order and after every call that
\* forwards the event's trace to the panel.
C18_OneRefetchOneSignal ==
    [][ \A ev \in Events :
            Deliver(ev) =>
                LET e == next(ev).effects
                IN  /\ last'.refetches = 1 /\ last'.signals = 1
                    /\ fetchPending'
                    /\ Count(e, "refetch") = 1 /\ Count(e, "onNewMessage") = 1
                    /\ Len(e) = Len(next(ev).calls) + 2
                    /\ e[Len(e) - 1] = "refetch" /\ e[Len(e)] = "onNewMessage"
      ]_vars

\* C18 witness: an event without payload has been handled after an event
\* whose trace was forwarded to the supervisor node.
C18_Witness ==
    /\ delivered = 2 /\ last.event = ""
    /\ last.refetches = 1 /\ last.signals = 1
    /\ nodeDetailsMap["supervisor"] # <<>>

IsCollaboratorOutput(ev) ==
    /\ ev.payload.text = "object" /\ ev.payload.trace.present
    /\ ev.payload.trace.action = "modelInvocationOutput"
    /\ ev.payload.trace.collaboratorName # ""

\* Delivering ev counts one call on the inbound edge of node n, adds the
\* trace text to the history of n iff it is non-empty, and leaves the
\* history and the inbound edge of node o as they were.
AttributedTo(ev, n, o) ==
    /\ edgeStats'["e-supervisor-" \o n].callCount =
           edgeStats["e-supervisor-" \o n].callCount + 1
    /\ nodeDetailsMap'[n] =
           IF ev.payload.trace.text # ""
           THEN Append(nodeDetailsMap[n], [text |-> ev.payload.trace.text])
           ELSE nodeDetailsMap[n]
    /\ nodeDetailsMap'[o] = nodeDetailsMap[o]
    /\ edgeStats'["e-supervisor-" \o o] = edgeStats["e-supervisor-" \o o]

\* C19: a trace with action "modelInvocationOutput" and a collaborator name
\* other than the loan-applicant constant is attributed to the "broker"
\* node (one more call on supervisor->broker, a broker entry iff the text
\* is non-empty, the loanApplicant history and the supervisor->loanApplicant
\* stats unchanged); with the constant as the name it is attributed to
\* "loanApplicant" and the broker side is unchanged.
C19_CollaboratorAttribution ==
    [][ \A ev \in Events :
            (IsCollaboratorOutput(ev) /\ Deliver(ev)) =>
                IF ev.payload.trace.collaboratorName = LoanAgentName
                THEN AttributedTo(ev, "loanApplicant", "broker")
                ELSE AttributedTo(ev, "broker", "loanApplicant")
      ]_vars

\* C19 witness: one trace of each collaborator has been processed, the
\* broker's with a text and the loan applicant's without.
C19_Witness ==
    /\ edgeStats["e-supervisor-broker"].callCount = 1
    /\ edgeStats["e-supervisor-loanApplicant"].callCount = 1
    /\ nodeDetailsMap["broker"] = <<[text |-> "t1"]>>
    /\ nodeDetailsMap["loanApplicant"] = <<>>

IsPlainOutput(ev) ==
    /\ ev.payload.text = "object" /\ ev.payload.trace.present
    /\ ev.payload.trace.action = "modelInvocationOutput"
    /\ ev.payload.trace.collaboratorName = ""

SupervisorGainsText(ev) ==
    nodeDetailsMap'["supervisor"] =
        IF ev.payload.trace.text # ""
        THEN Append(nodeDetailsMap["supervisor"], [text |-> ev.payload.trace.text])
        ELSE nodeDetailsMap["supervisor"]

\* C20 as stated: processing an event whose trace has action
\* "modelInvocationOutput" and no collaborator name changes no edge's
\* animated flag and no call count, and starts no timer that will turn an
\* animated edge off; it appends one entry to the "supervisor" history iff
\* the text is non-empty.
C20_PlainOutputTouchesNoEdge ==
    [][ \A ev \in Events :
            (IsPlainOutput(ev) /\ Deliver(ev)) =>
                /\ edgeStats' = edgeStats
                /\ \A k \in (Len(timers) + 1) .. Len(timers') :
                      ~edgeStats'[timers'[k].edge].isAnimated
                /\ SupervisorGainsText(ev)
      ]_vars

\* C20 amended: such an event changes no edge's animated flag and no call
\* count when it is processed and appends one entry to the "supervisor"
\* history iff the text is non-empty, the histories of the collaborators
\* unchanged; it starts no timer and leaves the "response" history alone
\* unless it also carries a bot reply, in which case the reply is appended
\* to the "response" history and the delayed clear of the
\* supervisor->response edge is started.
C20_PlainOutputRule ==
    [][ \A ev \in Events :
            (IsPlainOutput(ev) /\ Deliver(ev)) =>
                /\ edgeStats' = edgeStats
                /\ SupervisorGainsText(ev)
                /\ nodeDetailsMap'["loanApplicant"] = nodeDetailsMap["loanApplicant"]
                /\ nodeDetailsMap'["broker"] = nodeDetailsMap["broker"]
                /\ IF ev.bot = ""
                   THEN /\ timers' = timers
                        /\ nodeDetailsMap'["response"] = nodeDetailsMap["response"]
                   ELSE /\ timers' = Append(timers, Timer(AnimationDelay, ResponseEdge))
                        /\ nodeDetailsMap'["response"] =
                               Append(nodeDetailsMap["response"], [text |-> ev.bot])
      ]_vars

\* C20 witness: after a first-hop trace, a supervisor output without text
\* and with a bot reply has been processed: the supervisor->response edge is
\* animated and its clear is the timer set last.
C20_Witness ==
    /\ delivered = 2
    /\ nodeDetailsMap["supervisor"] = <<[text |-> "t1"]>>
    /\ nodeDetailsMap["response"] = <<[text |-> "Approved"]>>
    /\ edgeStats[ResponseEdge].isAnimated
    /\ timers = <<Timer(AnimationDelay, "e-user-supervisor"),
                  Timer(AnimationDelay, ResponseEdge)>>

(***************************************************************************)
(* Properties of the panel's graph (SpecViz).                              *)
(***************************************************************************)
\* C21: once the edge-sync effect has run for the current edge stats (it
\* runs within every step that changes them), every displayed edge that has
\* an edge-stats entry shows the isAnimated value of the entry as its
\* animated flag and the label "<count> calls" of the entry's call count,
\* no label while the count is 0; this holds after every sequence of
\* updateEdgeAnimation and incrementEdgeCount calls.
C21_EdgesMirrorStats ==
    \A i \in DOMAIN edges :
        edges[i].id \in DOMAIN edgeStats =>
            /\ edges[i].animated = edgeStats[edges[i].id].isAnimated
            /\ edges[i].label =
                   IF edgeStats[edges[i].id].callCount > 0
                   THEN <<edgeStats[edges[i].id].callCount>> ELSE <<>>

\* C21 witness: the user->supervisor edge is displayed animated with the
\* label of two calls, and the supervisor->broker edge, counted once, is
\* displayed not animated.
C21_Witness ==
    /\ edges[1].id = "e-user-supervisor"
    /\ edges[1].animated /\ edges[1].label = <<2>>
    /\ edges[3].id = "e-supervisor-broker"
    /\ ~edges[3].animated /\ edges[3].label = <<1>>

(***************************************************************************)
(* Properties of the call counts (Spec).                                   *)
(***************************************************************************)
\* The number of traces of ev that count for the inbound edge of node n.
CountedFor(ev, n) ==
    IF IsCollaboratorOutput(ev)
           /\ n = (IF ev.payload.trace.collaboratorName = LoanAgentName
                   THEN "loanApplicant" ELSE "broker")
    THEN 1 ELSE 0

\* C22: driven by the feed controller, every call count starts at 0, is
\* never negative and never decreases; the counts of user->supervisor and
\* supervisor->response stay 0; the count of supervisor->loanApplicant
\* (supervisor->broker) grows by exactly 1 with every processed trace that
\* has action "modelInvocationOutput" and a collaborator name mapped to
\* loanApplicant (broker), and by nothing else, so that it equals the
\* number of such traces processed so far.
C22_CallCounts ==
    /\ \A e \in FeedEdgeIds : edgeStats[e].callCount = 0
    /\ [](/\ \A e \in FeedEdgeIds : edgeStats[e].callCount >= 0
          /\ edgeStats["e-user-supervisor"].callCount = 0
          /\ edgeStats["e-supervisor-response"].callCount = 0)
    /\ [][ /\ \A e \in FeedEdgeIds :
                 edgeStats'[e].callCount >= edgeStats[e].callCount
           /\ \A ev \in Events :
                 Deliver(ev) =>
                     \A n \in {"loanApplicant", "broker"} :
                         edgeStats'["e-supervisor-" \o n].callCount =
                             edgeStats["e-supervisor-" \o n].callCount
                                 + CountedFor(ev, n)
           /\ (\A ev \in Events : ~Deliver(ev)) =>
                 \A e \in FeedEdgeIds :
                     edgeStats'[e].callCount = edgeStats[e].callCount
         ]_vars

\* C22 witness: two broker traces without text have been processed and
\* their clears have fired: the broker edge counts 2, the others 0.
C22_Witness ==
    /\ delivered = 2 /\ timers = <<>>
    /\ edgeStats["e-supervisor-broker"].callCount = 2
    /\ edgeStats["e-supervisor-loanApplicant"].callCount = 0
    /\ nodeDetailsMap["broker"] = <<>>

(***************************************************************************)
(* Properties of the attachment previews (SpecPreview).                    *)
(***************************************************************************)
\* C23: every attachment of a displayed turn is previewed by its file type:
\* a PDF as a link with an icon, an image (png, jpg, jpeg, gif) as a
\* thumbnail that opens in a new tab, an attachment of any other type as a
\* plain label without thumbnail.
C23_PreviewByFileType ==
    \A k \in DOMAIN groupedMessages(chats) :
        LET chat == groupedMessages(chats)[k]
        IN  \A d \in DOMAIN previewsShown(chat) :
                LET fileType == getFileType(chat.payload.documents[d])
                    preview == previewsShown(chat)[d]
                IN  /\ fileType = "pdf" =>
                          preview.element = "link" /\ preview.icon
                    /\ fileType = "image" =>
                          /\ preview.element = "image" /\ preview.thumbnail
                          /\ preview.opensNewTab
                    /\ fileType = "unknown" =>
                          preview.element = "label" /\ ~preview.thumbnail

(***************************************************************************)
(* Properties of the initial graph (Spec: the feed never adds an edge, so  *)
(* the graph of every state is the graph the panel was constructed with).  *)
(***************************************************************************)
Wiring(es) == {<<es[i].source, es[i].target>> : i \in DOMAIN es}

OneStatsEntryPerEdge ==
    /\ DOMAIN edgeStats = EdgeIdsOf(edges)
    /\ Cardinality(DOMAIN edgeStats) = Len(edges)

\* C24 (as stated): the graph has exactly five edges, wiring
\* user->supervisor, supervisor->loanApplicant, supervisor->broker and the
\* collaborator nodes and the supervisor to response, and the edge-stats map
\* has one entry per edge of the graph.
C24_FiveEdges ==
    /\ Len(edges) = 5
    /\ {<<"user", "supervisor">>, <<"supervisor", "loanApplicant">>,
        <<"supervisor", "broker">>} \subseteq Wiring(edges)
    /\ Wiring(edges) \subseteq
           {<<"user", "supervisor">>, <<"supervisor", "loanApplicant">>,
            <<"supervisor", "broker">>, <<"supervisor", "response">>,
            <<"loanApplicant", "response">>, <<"broker", "response">>}
    /\ OneStatsEntryPerEdge

\* C24 (amended): the graph has exactly four edges, wiring user->supervisor,
\* supervisor->loanApplicant, supervisor->broker and supervisor->response
\* (no edge leaves a collaborator node), and the edge-stats map has one
\* entry per edge of the graph.
C24_FourEdges ==
    /\ Len(edges) = 4
    /\ Wiring(edges) =
           {<<"user", "supervisor">>, <<"supervisor", "loanApplicant">>,
            <<"supervisor", "broker">>, <<"supervisor", "response">>}
    /\ OneStatsEntryPerEdge

\* C24 witness: the panel as constructed, before any call has touched it:
\* no edge animated or labelled, every call count 0.
C24_Witness ==
    /\ vizMounted
    /\ Len(edges) = 4
    /\ \A i \in DOMAIN edges : ~edges[i].animated /\ edges[i].label = <<>>
    /\ \A e \in DOMAIN edgeStats :
           edgeStats[e].callCount = 0 /\ ~edgeStats[e].isAnimated
    /\ \A n \in DOMAIN nodeDetailsMap : nodeDetailsMap[n] = <<>>

====
